---------------------------- MODULE Spec2Model ----------------------------
(***************************************************************************)
(* Model of package writesplitter (src/main.go): a WriteSplitter is an    *)
(* io.WriteCloser that rotates its output file once a limit of write      *)
(* calls ("lines") or of bytes has been reached.                          *)
(*                                                                         *)
(* The sink is the record ws (the struct's fields); the file system is    *)
(* the sequence files, one entry per successful os.Create, in creation    *)
(* order; a handle is an index into files.  Every operator that models a  *)
(* method threads the sequence tr of the underlying os calls the method   *)
(* issued (create / close / write) together with their results, so that   *)
(* order and pass-through of results can be stated.                       *)
(***************************************************************************)
EXTENDS Integers, Sequences, FiniteSets, TLC

\* ------------------------------------------------------------------ bounds
MaxLimit == 2      \* largest Limit a sink is constructed with
MaxLen   == 2      \* longest payload handed to Write
MaxCalls == 4      \* number of Write/Close calls in a behaviour

\* --------------------------------------------------------------- constants
Nil == 0           \* the nil *os.File

Limits == -1 .. MaxLimit

\* results of the underlying os calls
CreateErrs == {"ECREATE"}
WriteErrs  == {"EIO"}
CloseErrs  == {"ECLOSE"}

ErrNotAFile == "ErrNotAFile"
ErrNotADir  == "ErrNotADir"

\* what os.Stat can find at a path: a directory, something that is not a
\* directory, nothing, or a path it may not look at
StatOutcomes == {"dir", "file", "ENOENT", "EACCES"}

\* the (dir, prefix) arguments sinks are constructed with
SinkArgs == { <<"", "">>, <<"d", "p">> }

\* filepath.Clean, on the arguments above: the empty path becomes "."
Clean(path) == IF path = "" THEN "." ELSE path

\* filepath.Join of a directory and a file name
Join(dir, file) == IF dir = "" THEN file ELSE dir \o "/" \o file

\* Time.Format(time.RFC3339Nano): a text that is different for different
\* instants
Stamp(t) == "T" \o ToString(t)

\* time.Now() in create: the wall clock has either moved on since the file
\* before this one was created (tk) or still reads the same instant
Now(fs, tk) ==
    IF fs = <<>> THEN 1
    ELSE fs[Len(fs)].stamp + (IF tk THEN 1 ELSE 0)

\* one entry of the file system: a file made by os.Create(name) at instant t
NewFile(name, t) ==
    [open |-> TRUE, calls |-> 0, bytes |-> 0, stamp |-> t, name |-> name]

\* one underlying os call and what it returned
Ev(c, n, e) == [call |-> c, n |-> n, e |-> e]

\* ------------------------------------------------------------ constructors
LineSplitter(limit, dir, prefix) ==
    [Limit |-> limit, Dir |-> Clean(dir), Prefix |-> Clean(prefix),
     Bytes |-> FALSE, numBytes |-> 0, numLines |-> 0, handle |-> Nil]

ByteSplitter(limit, dir, prefix) ==
    [Limit |-> limit, Dir |-> Clean(dir), Prefix |-> Clean(prefix),
     Bytes |-> TRUE, numBytes |-> 0, numLines |-> 0, handle |-> Nil]

\* ------------------------------------------------------- os.File behaviour
\* (*os.File).Close: the descriptor is released whatever close(2) reports;
\* closing a file that is already closed returns os.ErrClosed.
FileClose(fs, h, res) ==
    IF fs[h].open
    THEN [files |-> [fs EXCEPT ![h].open = FALSE], e |-> res]
    ELSE [files |-> fs, e |-> "ErrClosed"]

\* (*os.File).Write: on a nil file ErrInvalid, on a closed file ErrClosed;
\* otherwise all of p is written, or wn < len(p) bytes and an error.
FileWrite(fs, h, len, wn, werr) ==
    IF h = Nil
    THEN [files |-> fs, n |-> 0, e |-> "ErrInvalid"]
    ELSE IF ~fs[h].open
    THEN [files |-> [fs EXCEPT ![h].calls = @ + 1], n |-> 0, e |-> "ErrClosed"]
    ELSE IF werr = "nil"
    THEN [files |-> [fs EXCEPT ![h].calls = @ + 1, ![h].bytes = @ + len],
          n |-> len, e |-> "nil"]
    ELSE [files |-> [fs EXCEPT ![h].calls = @ + 1, ![h].bytes = @ + wn],
          n |-> wn, e |-> werr]

\* ----------------------------------------------------------------- methods
\* create: os.Create succeeded (ok) or failed
\* the file name create computes, after it has turned a Dir or Prefix of "."
\* into the empty string
Unprefixed(path) == IF path = "." THEN "" ELSE path

filename(w, t) == Join(Unprefixed(w.Dir), Unprefixed(w.Prefix) \o Stamp(t))

create_KeepsHandle(w, fs, tr, ok, tk) ==
    LET e  == IF ok THEN "nil" ELSE "ECREATE"
        t  == Now(fs, tk)
        w1 == [w EXCEPT !.Dir = Unprefixed(@), !.Prefix = Unprefixed(@)]
    IN  [ws    |-> IF ok THEN [w1 EXCEPT !.handle = Len(fs) + 1] ELSE w1,
         files |-> IF ok THEN Append(fs, NewFile(filename(w, t), t)) ELSE fs,
         tr    |-> Append(tr, Ev("create", 0, e)),
         e     |-> e]

create(w, fs, tr, ok, tk) ==
    LET e  == IF ok THEN "nil" ELSE "ECREATE"
        t  == Now(fs, tk)
        w1 == [w EXCEPT !.Dir = Unprefixed(@), !.Prefix = Unprefixed(@)]
    IN  [ws    |-> [w1 EXCEPT !.handle = IF ok THEN Len(fs) + 1 ELSE Nil],
         files |-> IF ok THEN Append(fs, NewFile(filename(w, t), t)) ELSE fs,
         tr    |-> Append(tr, Ev("create", 0, e)),
         e     |-> e]

\* Close with the handle reference cleared afterwards (not what the code does)
Close_ClearsHandle(w, fs, tr, cres) ==
    IF w.handle # Nil
    THEN LET c == FileClose(fs, w.handle, cres)
         IN  [ws    |-> [w EXCEPT !.numLines = 0, !.numBytes = 0, !.handle = Nil],
              files |-> c.files,
              tr    |-> Append(tr, Ev("close", 0, c.e)),
              e     |-> c.e]
    ELSE [ws |-> w, files |-> fs, tr |-> tr, e |-> ErrNotAFile]

\* Close that leaves the counters as they are
Close_KeepsCounters(w, fs, tr, cres) ==
    IF w.handle # Nil
    THEN LET c == FileClose(fs, w.handle, cres)
         IN  [ws    |-> w,
              files |-> c.files,
              tr    |-> Append(tr, Ev("close", 0, c.e)),
              e     |-> c.e]
    ELSE [ws |-> w, files |-> fs, tr |-> tr, e |-> ErrNotAFile]

\* Close that resets the byte counter only
Close_ResetsBytesOnly(w, fs, tr, cres) ==
    IF w.handle # Nil
    THEN LET c == FileClose(fs, w.handle, cres)
         IN  [ws    |-> [w EXCEPT !.numBytes = 0],
              files |-> c.files,
              tr    |-> Append(tr, Ev("close", 0, c.e)),
              e     |-> c.e]
    ELSE [ws |-> w, files |-> fs, tr |-> tr, e |-> ErrNotAFile]

\* Close that reports success when there is nothing to close
Close_Silent(w, fs, tr, cres) ==
    IF w.handle # Nil
    THEN LET c == FileClose(fs, w.handle, cres)
         IN  [ws    |-> [w EXCEPT !.numLines = 0, !.numBytes = 0],
              files |-> c.files,
              tr    |-> Append(tr, Ev("close", 0, c.e)),
              e     |-> c.e]
    ELSE [ws |-> w, files |-> fs, tr |-> tr, e |-> "nil"]

Close(w, fs, tr, cres) ==
    IF w.handle # Nil
    THEN LET c == FileClose(fs, w.handle, cres)
         IN  [ws    |-> [w EXCEPT !.numLines = 0, !.numBytes = 0],
              files |-> c.files,
              tr    |-> Append(tr, Ev("close", 0, c.e)),
              e     |-> c.e]
    ELSE [ws |-> w, files |-> fs, tr |-> tr, e |-> ErrNotAFile]

\* the switch of Write: the first case falls through into the body of the
\* second, and the second case is evaluated whenever the first is false
ShouldRotate_Strict(w) ==
    \/ w.Limit > 0 /\ w.Bytes /\ w.numBytes > w.Limit
    \/ w.Limit > 0 /\ w.numLines > w.Limit

ShouldRotate_NoGuard(w) ==
    \/ w.Bytes /\ w.numBytes >= w.Limit
    \/ w.numLines >= w.Limit

ShouldRotate(w) ==
    \/ w.Limit > 0 /\ w.Bytes /\ w.numBytes >= w.Limit
    \/ w.Limit > 0 /\ w.numLines >= w.Limit

\* the body of the switch: ws.Close() with its result dropped, then create
rotate_KeepsCounters(w, fs, tr, cres, ok, tk) ==
    LET c == Close(w, fs, tr, cres)
    IN  create([c.ws EXCEPT !.numLines = w.numLines, !.numBytes = w.numBytes],
               c.files, c.tr, ok, tk)

rotate_NoClose(w, fs, tr, cres, ok, tk) ==
    create([w EXCEPT !.numLines = 0, !.numBytes = 0], fs, tr, ok, tk)

rotate(w, fs, tr, cres, ok, tk) ==
    LET c == Close(w, fs, tr, cres)
    IN  create(c.ws, c.files, c.tr, ok, tk)

\* Write that decides on the counters as they will be after this call
Write_CountsPayload(w, fs, len, ok1, tk1, ok2, tk2, cres, wn, werr) ==
    LET c1 == IF w.handle = Nil
              THEN create(w, fs, <<>>, ok1, tk1)
              ELSE [ws |-> w, files |-> fs, tr |-> <<>>, e |-> "nil"]
        c2 == IF ShouldRotate([c1.ws EXCEPT !.numLines = @ + 1,
                                            !.numBytes = @ + len])
              THEN rotate(c1.ws, c1.files, c1.tr, cres, ok2, tk2)
              ELSE c1
    IN  IF c2.e # "nil"
        THEN [ws |-> c2.ws, files |-> c2.files, tr |-> c2.tr,
              n |-> 0, e |-> c2.e]
        ELSE LET r == FileWrite(c2.files, c2.ws.handle, len, wn, werr)
             IN  [ws    |-> [c2.ws EXCEPT !.numLines = @ + 1,
                                          !.numBytes = @ + r.n],
                  files |-> r.files,
                  tr    |-> Append(c2.tr, Ev("write", r.n, r.e)),
                  n     |-> r.n,
                  e     |-> r.e]

\* Write that counts the bytes of a write only when the write succeeded
Write_CountsOnSuccess(w, fs, len, ok1, tk1, ok2, tk2, cres, wn, werr) ==
    LET c1 == IF w.handle = Nil
              THEN create(w, fs, <<>>, ok1, tk1)
              ELSE [ws |-> w, files |-> fs, tr |-> <<>>, e |-> "nil"]
        c2 == IF ShouldRotate(c1.ws)
              THEN rotate(c1.ws, c1.files, c1.tr, cres, ok2, tk2)
              ELSE c1
    IN  IF c2.e # "nil"
        THEN [ws |-> c2.ws, files |-> c2.files, tr |-> c2.tr,
              n |-> 0, e |-> c2.e]
        ELSE LET r == FileWrite(c2.files, c2.ws.handle, len, wn, werr)
             IN  [ws    |-> [c2.ws EXCEPT
                               !.numLines = @ + 1,
                               !.numBytes = IF r.e = "nil" THEN @ + r.n ELSE @],
                  files |-> r.files,
                  tr    |-> Append(c2.tr, Ev("write", r.n, r.e)),
                  n     |-> r.n,
                  e     |-> r.e]

Write(w, fs, len, ok1, tk1, ok2, tk2, cres, wn, werr) ==
    LET c1 == IF w.handle = Nil
              THEN create(w, fs, <<>>, ok1, tk1)
              ELSE [ws |-> w, files |-> fs, tr |-> <<>>, e |-> "nil"]
        c2 == IF ShouldRotate(c1.ws)
              THEN rotate(c1.ws, c1.files, c1.tr, cres, ok2, tk2)
              ELSE c1
    IN  IF c2.e # "nil"
        THEN [ws |-> c2.ws, files |-> c2.files, tr |-> c2.tr,
              n |-> 0, e |-> c2.e]
        ELSE LET r == FileWrite(c2.files, c2.ws.handle, len, wn, werr)
             IN  [ws    |-> [c2.ws EXCEPT !.numLines = @ + 1,
                                          !.numBytes = @ + r.n],
                  files |-> r.files,
                  tr    |-> Append(c2.tr, Ev("write", r.n, r.e)),
                  n     |-> r.n,
                  e     |-> r.e]

\* CheckDir: os.Stat returns a nil FileInfo together with any error, and the
\* condition calls stat.IsDir() unless the error is "does not exist"
CheckDir(st) ==
    IF st = "ENOENT" THEN ErrNotADir
    ELSE IF st \notin {"dir", "file"} THEN "panic"
    ELSE IF st # "dir" THEN ErrNotADir
    ELSE IF st = "EACCES" THEN ErrNotADir
    ELSE "nil"

\* ------------------------------------------------------------------- state
VARIABLES
    ws,      \* the WriteSplitter
    files,   \* the files the sink created, in creation order
    last,    \* the most recent call: its arguments, pre-state and results
    hist     \* what has happened so far in the behaviour

vars == <<ws, files, last, hist>>

NoCall ==
    [op |-> "none", prevOp |-> "none", len |-> 0, n |-> 0, e |-> "nil",
     tr |-> <<>>, pre |-> LineSplitter(0, "", ""), preOpen |-> FALSE]

Init ==
    /\ ws \in {LineSplitter(l, a[1], a[2]) : l \in Limits, a \in SinkArgs}
             \cup {ByteSplitter(l, a[1], a[2]) : l \in Limits, a \in SinkArgs}
    /\ files = <<>>
    /\ last = [NoCall EXCEPT !.pre = ws]
    /\ hist = [calls |-> 0, writes |-> 0, createFailed |-> FALSE,
               closeCalled |-> FALSE, closedOpen |-> FALSE,
               zeroWrite |-> FALSE]

IsOpen(w, fs) == w.handle # Nil /\ fs[w.handle].open

HasCreateFailure(tr) ==
    \E i \in 1 .. Len(tr) : tr[i].call = "create" /\ tr[i].e # "nil"

\* an underlying write of tr reported that it wrote no byte
HasZeroWrite(tr) ==
    \E i \in 1 .. Len(tr) : tr[i].call = "write" /\ tr[i].n = 0

\* the outcomes a call ws.Write(p), len(p) = len, can have, one for every way
\* the underlying calls it makes can turn out
WriteOutcomes(w, fs, len, ticks) ==
    { Write(w, fs, len, ok1, tk1, ok2, tk2, cres, wn, werr) :
        ok1 \in BOOLEAN, tk1 \in ticks, ok2 \in BOOLEAN, tk2 \in ticks,
        cres \in {"nil"} \cup CloseErrs,
        wn \in 0 .. (IF len = 0 THEN 0 ELSE len - 1),
        werr \in {"nil"} \cup WriteErrs }

\* a call has panicked: the program is gone
Crashed == last.e = "panic"

\* a caller invokes ws.Write(p); ticks says what the clock may have done
\* since the last file was created: {TRUE} it has moved on, BOOLEAN it may
\* also read the same instant again
WriteCallOn(ticks) ==
    /\ ~Crashed
    /\ hist.calls < MaxCalls
    /\ \E len \in 0 .. MaxLen :
       \E r \in WriteOutcomes(ws, files, len, ticks) :
          /\ ws' = r.ws
          /\ files' = r.files
          /\ last' = [op |-> "Write", prevOp |-> last.op, len |-> len,
                      n |-> r.n, e |-> r.e, tr |-> r.tr, pre |-> ws,
                      preOpen |-> IsOpen(ws, files)]
          /\ hist' = [hist EXCEPT
                        !.calls = @ + 1,
                        !.writes = @ + 1,
                        !.createFailed = @ \/ HasCreateFailure(r.tr),
                        !.zeroWrite = @ \/ HasZeroWrite(r.tr)]

\* a caller invokes ws.Close()
CloseCall ==
    /\ ~Crashed
    /\ hist.calls < MaxCalls
    /\ \E cres \in {"nil"} \cup CloseErrs :
          LET r == Close(ws, files, <<>>, cres)
          IN  /\ ws' = r.ws
              /\ files' = r.files
              /\ last' = [op |-> "Close", prevOp |-> last.op, len |-> 0,
                          n |-> 0, e |-> r.e, tr |-> r.tr, pre |-> ws,
                          preOpen |-> IsOpen(ws, files)]
              /\ hist' = [hist EXCEPT
                            !.calls = @ + 1,
                            !.closeCalled = TRUE,
                            !.closedOpen = @ \/ IsOpen(ws, files)]

\* a caller checks a directory with CheckDir(dir) before it uses the sink
CheckDirCall ==
    /\ last.op = "none"
    /\ \E st \in StatOutcomes :
          last' = [op |-> "CheckDir", prevOp |-> last.op, len |-> 0,
                   n |-> 0, e |-> CheckDir(st), tr |-> << Ev("stat", 0, st) >>,
                   pre |-> ws, preOpen |-> FALSE]
    /\ UNCHANGED <<ws, files, hist>>

\* Write under a clock that moves between any two creates
WriteCall == WriteCallOn({TRUE})

\* Write under a clock that two creates can read at the same instant: a
\* clock coarser than the time between them, or one that was set back
WriteCallCoarse == WriteCallOn(BOOLEAN)

Next == WriteCall \/ CloseCall \/ CheckDirCall

Spec == Init /\ [][Next]_vars

NextCoarse == WriteCallCoarse \/ CloseCall \/ CheckDirCall

SpecCoarse == Init /\ [][NextCoarse]_vars

TypeOK ==
    /\ ws.Limit \in Limits
    /\ ws.Bytes \in BOOLEAN
    /\ ws.numBytes \in 0 .. MaxCalls * MaxLen
    /\ ws.numLines \in 0 .. MaxCalls
    /\ ws.handle \in 0 .. Len(files)
    /\ Len(files) <= MaxCalls

\* ------------------------------------------------------------ observations
\* a step that is a call of Write / of Close
WriteStep == hist'.writes = hist.writes + 1
CloseStep == hist'.calls = hist.calls + 1 /\ hist'.writes = hist.writes

\* the call l went through the body of the switch of Write: it issued a
\* create that is not the lazy create of a sink without handle
Rotated(l) ==
    /\ l.op = "Write"
    /\ \E i \in 1 .. Len(l.tr) :
          l.tr[i].call = "create" /\ (i > 1 \/ l.pre.handle # Nil)

HasWrite(tr) == \E i \in 1 .. Len(tr) : tr[i].call = "write"

OpenFiles == {i \in 1 .. Len(files) : files[i].open}

\* a line-mode sink with a positive limit on which no create has failed and
\* Close has never been called
LineModeUndisturbed ==
    /\ ~ws.Bytes
    /\ ws.Limit > 0
    /\ ~hist.createFailed
    /\ ~hist.closeCalled

\* ---------------------------------------------------------------------- C1
\* C1: line-mode, Limit = L > 0, creates succeed, no Close: the k-th Write
\* call goes to file ((k-1) div L) + 1; a call rotates exactly when it is
\* call number m*L + 1 (m >= 1), closing the old file and creating the new
\* one before it writes; every file but the last has received exactly L
\* Write calls and is closed, the last one between 1 and L.
C1_LineRotation ==
    (LineModeUndisturbed /\ hist.writes >= 1) =>
        /\ Len(files) = ((hist.writes - 1) \div ws.Limit) + 1
        /\ ws.handle = Len(files)
        /\ \A i \in 1 .. Len(files) - 1 :
              files[i].calls = ws.Limit /\ ~files[i].open
        /\ files[Len(files)].calls = hist.writes - (Len(files) - 1) * ws.Limit
        /\ files[Len(files)].calls \in 1 .. ws.Limit
        /\ Rotated(last) <=> (hist.writes > 1 /\ (hist.writes - 1) % ws.Limit = 0)
        /\ Rotated(last) =>
              /\ Len(last.tr) = 3
              /\ last.tr[1].call = "close"
              /\ last.tr[2].call = "create"
              /\ last.tr[3].call = "write"

C1_Witness ==
    /\ LineModeUndisturbed
    /\ ws.Limit = 2
    /\ hist.writes = 4
    /\ Rotated(last) = FALSE
    /\ Len(files) = 2
    /\ files[1].calls = 2 /\ files[2].calls = 2

\* ---------------------------------------------------------------------- C2
\* C2: in byte-mode with Limit = L > 0, a Write call that starts with an
\* open handle rotates if and only if the bytes counted for the current
\* file by earlier calls are >= L.
C2_ByteModeOnlyBytes ==
    (ws.Bytes /\ ws.Limit > 0 /\ last.op = "Write" /\ last.preOpen) =>
        (Rotated(last) <=> last.pre.numBytes >= ws.Limit)

\* ---------------------------------------------------------------------- C3
\* C3: the decision of a Write call rests on the counters at its entry.  A
\* call entered with both counters at 0 never rotates, whatever the length
\* of its payload, and when it succeeds the whole payload is in the current
\* file; a call entered with an open handle whose counter has reached the
\* limit (bytes in byte-mode, calls in line-mode) does rotate.
C3_PreCallCounters ==
    [][ WriteStep =>
          /\ (ws.numLines = 0 /\ ws.numBytes = 0) =>
                /\ ~Rotated(last')
                /\ Len(files') <= Len(files) + 1
                /\ last'.e = "nil" =>
                      /\ last'.n = last'.len
                      /\ ws'.numBytes = last'.len
                      /\ files'[ws'.handle].bytes = last'.len
          /\ ( /\ ws.Limit > 0
               /\ IsOpen(ws, files)
               /\ \/ ws.Bytes /\ ws.numBytes >= ws.Limit
                  \/ ~ws.Bytes /\ ws.numLines >= ws.Limit ) =>
                /\ Rotated(last')
                /\ ~files'[ws.handle].open
                /\ files'[ws.handle].bytes = files[ws.handle].bytes
       ]_vars

\* a first write of 2 bytes under a byte limit of 1 went whole into file 1
\* and the call after it rotated
C3_Witness ==
    /\ ws.Bytes
    /\ ws.Limit = 1
    /\ Rotated(last)
    /\ last.pre.numLines = 1
    /\ last.pre.numBytes = 2
    /\ Len(files) = 2
    /\ files[1].calls = 1 /\ files[1].bytes = 2

\* ---------------------------------------------------------------------- C4
\* C4: a sink with Limit <= 0, on which no create failed and Close was never
\* called, has created exactly one file after any number N >= 1 of Writes.
C4_NoLimitOneFile ==
    (ws.Limit <= 0 /\ ~hist.createFailed /\ ~hist.closeCalled /\ hist.writes >= 1) =>
        /\ Len(files) = 1
        /\ ws.handle = 1
        /\ files[1].open
        /\ files[1].calls = hist.writes
        /\ ~Rotated(last)

C4_Witness ==
    /\ ws.Limit <= 0
    /\ ws.Bytes
    /\ ~hist.createFailed /\ ~hist.closeCalled
    /\ hist.writes = 4
    /\ Len(files) = 1
    /\ files[1].bytes >= 6

\* ---------------------------------------------------------------------- C5
\* C5 as stated: the Write call that follows a Close of an open handle
\* starts by creating a file, and succeeds with the whole payload when the
\* create and the underlying write succeed.
C5_Original ==
    [][ (WriteStep /\ last.op = "Close" /\ last.preOpen) =>
          /\ last'.tr # <<>>
          /\ last'.tr[1].call = "create"
          /\ (\A i \in 1 .. Len(last'.tr) : last'.tr[i].e \in {"nil", "ErrClosed"}) =>
                last'.e = "nil" /\ last'.n = last'.len
       ]_vars

\* C5 amended: the Write call that follows a Close of an open handle creates
\* no file: the sink still holds the closed handle, the payload is handed to
\* it, nothing is written and the call returns (0, file already closed),
\* having counted one call and no bytes; for every Limit and both modes.
C5_WriteAfterCloseFails ==
    [][ (WriteStep /\ last.op = "Close" /\ last.preOpen) =>
          /\ last'.tr = << Ev("write", 0, "ErrClosed") >>
          /\ last'.n = 0
          /\ last'.e = "ErrClosed"
          /\ Len(files') = Len(files)
          /\ ws'.handle = ws.handle
          /\ ~files'[ws'.handle].open
          /\ files'[ws'.handle].bytes = files[ws.handle].bytes
          /\ ws'.numLines = 1
          /\ ws'.numBytes = 0
       ]_vars

C5_Witness ==
    /\ last.op = "Write"
    /\ last.prevOp = "Close"
    /\ last.pre.handle # Nil
    /\ last.len = 2
    /\ last.e = "ErrClosed"
    /\ ws.Limit = 1
    /\ ws.numLines = 1

\* ---------------------------------------------------------------------- C6
\* C6: once Close has been called on a sink with an open handle, every
\* later Write call returns an error.
C6_WritesAfterCloseFail ==
    (hist.closedOpen /\ last.op = "Write") => last.e # "nil"

\* ---------------------------------------------------------------------- C7
\* C7 as stated: a Close of an open handle leaves the counters at 0 and the
\* handle field empty, and a Close that follows it returns ErrNotAFile
\* without calling the underlying close.
C7_Original ==
    [][ CloseStep =>
          /\ IsOpen(ws, files) =>
                ws'.numLines = 0 /\ ws'.numBytes = 0 /\ ws'.handle = Nil
          /\ (last.op = "Close" /\ last.preOpen) =>
                last'.e = ErrNotAFile /\ last'.tr = <<>>
       ]_vars

\* C7 amended: a Close of an open handle leaves the counters at 0, issues
\* one underlying close whose result it returns and leaves the file closed,
\* but the handle field keeps referring to that file; a Close that follows
\* it calls the underlying close again and returns its "already closed"
\* error, not ErrNotAFile.
C7_CloseKeepsHandle ==
    [][ CloseStep =>
          /\ IsOpen(ws, files) =>
                /\ ws'.numLines = 0
                /\ ws'.numBytes = 0
                /\ ws'.handle = ws.handle
                /\ ~files'[ws.handle].open
                /\ Len(last'.tr) = 1
                /\ last'.tr[1].call = "close"
                /\ last'.e = last'.tr[1].e
                /\ last'.e \in {"nil"} \cup CloseErrs
          /\ (last.op = "Close" /\ last.preOpen) =>
                /\ last'.e = "ErrClosed"
                /\ last'.tr = << Ev("close", 0, "ErrClosed") >>
                /\ ws' = ws
       ]_vars

C7_Witness ==
    /\ last.op = "Close"
    /\ last.prevOp = "Close"
    /\ last.e = "ErrClosed"
    /\ ws.handle # Nil
    /\ ~files[ws.handle].open
    /\ files[ws.handle].bytes > 0
    /\ ws.numLines = 0 /\ ws.numBytes = 0

\* ---------------------------------------------------------------------- C8
\* C8: Close on a sink without handle returns ErrNotAFile, calls nothing
\* and changes neither the sink nor the files; the Write call after it
\* starts with a create and, when that succeeds, writes to the new file and
\* returns what the underlying write returned (the whole payload, no error,
\* when the write succeeds).
C8_CloseWithoutHandle ==
    [][ /\ (CloseStep /\ ws.handle = Nil) =>
              /\ last'.e = ErrNotAFile
              /\ last'.tr = <<>>
              /\ ws' = ws
              /\ files' = files
        /\ (WriteStep /\ last.op = "Close" /\ last.e = ErrNotAFile) =>
              /\ last'.tr # <<>>
              /\ last'.tr[1].call = "create"
              /\ last'.tr[1].e = "nil" =>
                    /\ Len(files') = Len(files) + 1
                    /\ ws'.handle = Len(files')
                    /\ Len(last'.tr) = 2
                    /\ last'.tr[2].call = "write"
                    /\ last'.n = last'.tr[2].n
                    /\ last'.e = last'.tr[2].e
                    /\ files'[ws'.handle].bytes = last'.n
                    /\ last'.e = "nil" => last'.n = last'.len
       ]_vars

\* a Close without handle, after a failed create, followed by a Write that
\* succeeded
C8_Witness ==
    /\ last.op = "Write"
    /\ last.prevOp = "Close"
    /\ last.pre.handle = Nil
    /\ hist.createFailed
    /\ last.e = "nil"
    /\ last.len = 2
    /\ files[ws.handle].bytes = 2

\* ---------------------------------------------------------------------- C9
\* C9: at most one of the files the sink created is open, and it is the one
\* the handle refers to; every create of a rotation comes right after a
\* close of the old handle.
C9_OneOpenFile ==
    /\ Cardinality(OpenFiles) <= 1
    /\ \A i \in OpenFiles : ws.handle = i
    /\ last.op = "Write" =>
          \A i \in 1 .. Len(last.tr) :
             (last.tr[i].call = "create" /\ (i > 1 \/ last.pre.handle # Nil)) =>
                 i > 1 /\ last.tr[i - 1].call = "close"

\* a rotation whose close failed
C9_Witness ==
    /\ Rotated(last)
    /\ last.tr[1] = Ev("close", 0, "ECLOSE")
    /\ last.tr[2] = Ev("create", 0, "nil")
    /\ Len(files) = 2
    /\ ~files[1].open
    /\ files[2].open

\* --------------------------------------------------------------------- C10
\* C10: a Write call in which a create fails, the lazy one or the one of a
\* rotation, returns (0, that create's error), does not call the underlying
\* write, writes nothing and leaves the sink without handle; and a Write
\* call entered without handle starts with a create.
C10_FailedCreate ==
    [][ WriteStep =>
          /\ HasCreateFailure(last'.tr) =>
                /\ last'.n = 0
                /\ last'.e = last'.tr[Len(last'.tr)].e
                /\ last'.tr[Len(last'.tr)].call = "create"
                /\ last'.e \in CreateErrs
                /\ ~HasWrite(last'.tr)
                /\ ws'.handle = Nil
                /\ Len(files') = Len(files)
                /\ \A i \in 1 .. Len(files) : files'[i].bytes = files[i].bytes
                /\ ws'.numBytes \in {0, ws.numBytes}
          /\ ws.handle = Nil =>
                last'.tr # <<>> /\ last'.tr[1].call = "create"
       ]_vars

\* the create of a rotation failed and the Write call after it created the
\* next file
C10_Witness ==
    /\ last.op = "Write"
    /\ last.prevOp = "Write"
    /\ last.pre.handle = Nil
    /\ hist.createFailed
    /\ last.e = "nil"
    /\ Len(files) = 2
    /\ ~files[1].open
    /\ files[1].calls = ws.Limit

\* --------------------------------------------------------------------- C11
\* C11: every failure of an underlying create, write or close issued during
\* a Write or Close call, the close of a rotation included, is the error
\* that call returns.
C11_NoErrorSwallowed ==
    last.op \in {"Write", "Close"} =>
        \A i \in 1 .. Len(last.tr) :
            last.tr[i].e # "nil" => last.e = last.tr[i].e

\* --------------------------------------------------------------------- C12
\* a call closed or created a handle and did not write afterwards
EndsOnCloseOrCreate(tr) ==
    /\ tr # <<>>
    /\ tr[Len(tr)].call \in {"close", "create"}

\* C12 as stated: right after a handle is closed or a file is created the
\* counters are 0 (so a call that creates a file and writes to it ends with
\* the counters holding that one write), and at every moment the counters
\* equal the calls and bytes the current handle has received.
C12_Original ==
    [][ /\ EndsOnCloseOrCreate(last'.tr) =>
              ws'.numLines = 0 /\ ws'.numBytes = 0
        /\ ( /\ last'.op = "Write"
             /\ \E i \in 1 .. Len(last'.tr) :
                   last'.tr[i].call = "create" /\ last'.tr[i].e = "nil" ) =>
              ws'.numLines = 1 /\ ws'.numBytes = last'.n
        /\ ws'.handle # Nil =>
              /\ ws'.numLines = files'[ws'.handle].calls
              /\ ws'.numBytes = files'[ws'.handle].bytes
       ]_vars

\* C12 amended: right after a handle is closed or a file is created the
\* counters are 0, and whenever the handle refers to a file that is still
\* open the counters equal the calls and bytes that file has received; a
\* handle that Close has closed stays in the sink, and then the counters
\* count the calls (and 0 bytes) made since that Close.
C12_CountersPerOpenFile ==
    [][ /\ EndsOnCloseOrCreate(last'.tr) =>
              ws'.numLines = 0 /\ ws'.numBytes = 0
        /\ ( /\ last'.op = "Write"
             /\ \E i \in 1 .. Len(last'.tr) :
                   last'.tr[i].call = "create" /\ last'.tr[i].e = "nil" ) =>
              ws'.numLines = 1 /\ ws'.numBytes = last'.n
        /\ IsOpen(ws', files') =>
              /\ ws'.numLines = files'[ws'.handle].calls
              /\ ws'.numBytes = files'[ws'.handle].bytes
        /\ (ws'.handle # Nil /\ ~IsOpen(ws', files')) =>
              /\ ws'.numBytes = 0
              /\ ws'.numLines <= files'[ws'.handle].calls
       ]_vars

\* a rotation out of a file with two calls and three bytes into a new file
C12_Witness ==
    /\ Rotated(last)
    /\ last.pre.numLines = 2
    /\ last.pre.numBytes = 3
    /\ last.e = "nil"
    /\ ws.numLines = 1
    /\ ws.numBytes = last.len
    /\ files[ws.handle].calls = 1

\* --------------------------------------------------------------------- C13
\* the counters handle.Write finds: those at entry, or 0 after a rotation
BaseLines(l) == IF Rotated(l) THEN 0 ELSE l.pre.numLines
BaseBytes(l) == IF Rotated(l) THEN 0 ELSE l.pre.numBytes

\* C13: a Write call that reaches the underlying write adds exactly 1 to
\* numLines and exactly the reported byte count to numBytes, whether the
\* write succeeded, was partial or failed, and returns the (n, error) of the
\* underlying write.
C13_CountsEveryWrite ==
    (last.op = "Write" /\ HasWrite(last.tr)) =>
        LET w == last.tr[Len(last.tr)]
        IN  /\ w.call = "write"
            /\ ws.numLines = BaseLines(last) + 1
            /\ ws.numBytes = BaseBytes(last) + w.n
            /\ last.n = w.n
            /\ last.e = w.e
            /\ w.e = "nil" => w.n = last.len

\* a partial write of one byte out of two, after a full one
C13_Witness ==
    /\ last.op = "Write"
    /\ last.len = 2
    /\ last.n = 1
    /\ last.e = "EIO"
    /\ ~Rotated(last)
    /\ ws.numLines = 2
    /\ ws.numBytes = 3

\* --------------------------------------------------------------------- C17
\* C17: whenever the handle is nil, numLines = 0 and numBytes = 0.
C17_NilHandleZeroCounters ==
    ws.handle = Nil => ws.numLines = 0 /\ ws.numBytes = 0

\* the create of a rotation failed, out of a file that had been written to
C17_Witness ==
    /\ ws.handle = Nil
    /\ last.op = "Write"
    /\ HasCreateFailure(last.tr)
    /\ last.pre.numLines = 2
    /\ last.pre.numBytes = 2

\* --------------------------------------------------------------------- C18
\* C18: Write never calls the underlying write on a nil handle, and a call
\* whose lazy create failed issues nothing else and returns (0, that error).
C18_NoWriteOnNil ==
    last.op = "Write" =>
        /\ \A i \in 1 .. Len(last.tr) : last.tr[i].e # "ErrInvalid"
        /\ HasWrite(last.tr) => ws.handle # Nil
        /\ ( /\ last.pre.handle = Nil
             /\ last.tr # <<>>
             /\ last.tr[1].e # "nil" ) =>
              /\ Len(last.tr) = 1
              /\ last.tr[1].call = "create"
              /\ last.e = last.tr[1].e
              /\ last.n = 0
              /\ ws.handle = Nil
              /\ ws.numLines = last.pre.numLines
              /\ ws.numBytes = last.pre.numBytes

\* two lazy creates in a row failed
C18_Witness ==
    /\ last.op = "Write"
    /\ last.prevOp = "Write"
    /\ last.pre.handle = Nil
    /\ last.e = "ECREATE"
    /\ hist.writes = 2
    /\ ws.Limit = 1
    /\ files = <<>>

\* --------------------------------------------------------------------- C16
\* C16 as stated: with Limit = L >= 1, in either mode, numLines <= L in
\* every reachable state, and no handle has received more than L underlying
\* write calls.
C16_Original ==
    ws.Limit >= 1 =>
        /\ ws.numLines <= ws.Limit
        /\ \A i \in 1 .. Len(files) : files[i].calls <= ws.Limit

\* C16 amended: with Limit = L >= 1, in either mode, numLines <= L in every
\* reachable state, so no handle receives more than L underlying write
\* calls while it is open (none at all when Close is never called); a
\* handle closed by Close stays in the sink and receives the write calls
\* that follow, beyond L.
C16_CallsPerOpenFile ==
    ws.Limit >= 1 =>
        /\ ws.numLines <= ws.Limit
        /\ \A i \in 1 .. Len(files) :
              (files[i].open \/ ~hist.closeCalled) => files[i].calls <= ws.Limit

\* a byte-mode sink whose file reached the limit of calls on zero-byte
\* writes, after an earlier Close
C16_Witness ==
    /\ ws.Bytes
    /\ ws.Limit = 2
    /\ hist.closeCalled
    /\ IsOpen(ws, files)
    /\ ws.numLines = 2
    /\ ws.numBytes = 0
    /\ files[ws.handle].calls = 2

\* --------------------------------------------------------------------- C19
\* C19 as stated: in byte-mode with Limit = L >= 1 every underlying write
\* goes to a handle whose numBytes is < L at that moment, and after it the
\* bytes written to that handle are fewer than L plus the bytes of this,
\* its last, Write call.
C19_Original ==
    [][ (WriteStep /\ ws.Bytes /\ ws.Limit >= 1 /\ HasWrite(last'.tr)) =>
          /\ BaseBytes(last') < ws.Limit
          /\ files'[ws'.handle].bytes < ws.Limit + last'.n
       ]_vars

\* C19 amended: in byte-mode with Limit = L >= 1 every underlying write goes
\* to a handle whose numBytes is < L at that moment, so the bytes written to
\* a handle are fewer than L plus the bytes of the last Write call made to
\* it while it was open; the Write calls a handle receives after Close has
\* closed it write nothing and are not that last call.
C19_BoundedOvershoot ==
    [][ (WriteStep /\ ws.Bytes /\ ws.Limit >= 1 /\ HasWrite(last'.tr)) =>
          /\ BaseBytes(last') < ws.Limit
          /\ ws'.numBytes = BaseBytes(last') + last'.n
          /\ IsOpen(ws', files') =>
                /\ files'[ws'.handle].bytes = ws'.numBytes
                /\ files'[ws'.handle].bytes < ws.Limit + last'.n
          /\ ~IsOpen(ws', files') =>
                /\ last'.n = 0
                /\ files'[ws'.handle].bytes = files[ws.handle].bytes
       ]_vars

\* a file under a byte limit of 2 took 1 byte and then 2 more
C19_Witness ==
    /\ ws.Bytes
    /\ ws.Limit = 2
    /\ last.op = "Write"
    /\ ~Rotated(last)
    /\ last.pre.numBytes = 1
    /\ last.n = 2
    /\ IsOpen(ws, files)
    /\ files[ws.handle].bytes = 3

\* --------------------------------------------------------------------- C20
\* C20: as long as every underlying write has reported at least 1 byte,
\* numBytes >= numLines, and a byte-mode Write call rotates only when
\* numBytes >= Limit at its entry.
C20_BytesCoverLines ==
    /\ [](~hist.zeroWrite => ws.numBytes >= ws.numLines)
    /\ [][ (~hist.zeroWrite /\ WriteStep /\ ws.Bytes /\ Rotated(last')) =>
              ws.numBytes >= ws.Limit ]_vars

\* a byte-mode rotation at 2 bytes out of a file with a single call
C20_Witness ==
    /\ ~hist.zeroWrite
    /\ ws.Bytes
    /\ ws.Limit = 2
    /\ Rotated(last)
    /\ last.pre.numLines = 1
    /\ last.pre.numBytes = 2
    /\ ws.numLines = 1
    /\ ws.numBytes >= 1

\* --------------------------------------------------------------------- C15
\* C15: CheckDir returns ErrNotADir, as a value, when the path does not
\* exist, when it is not a directory and when stat is denied permission,
\* and returns nil for an accessible directory.
C15_CheckDir ==
    last.op = "CheckDir" =>
        LET st == last.tr[1].e
        IN  /\ st \in {"ENOENT", "file", "EACCES"} => last.e = ErrNotADir
            /\ st = "dir" => last.e = "nil"

\* --------------------------------------------------------------------- C14
\* C14: the files a sink creates all have different names, each name being
\* Dir joined with Prefix + the timestamp read when the file was created.
C14_UniqueNames ==
    /\ \A i, j \in 1 .. Len(files) : i # j => files[i].name # files[j].name
    /\ \A i \in 1 .. Len(files) : files[i].name = filename(ws, files[i].stamp)

=============================================================================
